---- MODULE Spec2Model ----
(***************************************************************************)
(* Smart_Plate diet planner backend: the two input validators              *)
(* (validation.py and the one defined in app.py), the request handler      *)
(* generate_diet of app.py (validation, diet normalisation, prompt,        *)
(* model call under signal.alarm, response cleaning, JSON parse), and the  *)
(* process-wide alarm shared by concurrently handled requests.             *)
(*                                                                         *)
(* JSON / Python values are tagged records [t |-> tag, v |-> payload]:     *)
(*   absent (key not in the dict), null (None), bool, int,                 *)
(*   float (payload = the value in half units, 241 is 120.5),              *)
(*   inf, nan (the float specials json.loads accepts), str (payload = the  *)
(*   sequence of its characters), list (payload = sequence of values).     *)
(***************************************************************************)
EXTENDS Integers, Sequences, FiniteSets, TLC

VARIABLES
    vdata,      \* validator run: the input record (dict) given to validate_diet_input
    vvariant,   \* validator run: which validate_diet_input ("validation.py" | "app.py")
    vresult,    \* validator run: what the call did (returned report or raised)
    vpc,        \* validator run: "input" | "done"
    hpc,        \* generate_diet: the handler's position
    hreq,       \* generate_diet: the request body as Flask holds it
    halarm,     \* generate_diet: hasattr(signal, 'SIGALRM') on this platform
    huser,      \* generate_diet: user_data
    hprompt,    \* generate_diet: the prompt (its interpolated clauses)
    hreply,     \* generate_diet: response as the model call returned it
    hcleaned,   \* generate_diet: cleaned_response
    hresp,      \* generate_diet: the HTTP response returned
    hcount,     \* generate_diet: how often the model was called, json.loads was
                \* called, a response was returned, a warning was printed
    dinput,     \* prompt run: the diet_type given (the word, the letters in upper case)
    dprompt,    \* prompt run: the prompt built
    dpc,        \* prompt run: "input" | "done"
    amode,      \* alarm run: "threaded" (app.run(threaded=True)) | "single"
    apc,        \* alarm run: each request's position around the model call
    alarm,      \* alarm run: seconds left on the process's one alarm (0: none pending)
    waited,     \* alarm run: seconds each request has spent inside generate_content
    amain       \* alarm run: what the main thread is doing

vvars == <<vdata, vvariant, vresult, vpc>>
hvars == <<hpc, hreq, halarm, huser, hprompt, hreply, hcleaned, hresp, hcount>>
dvars == <<dinput, dprompt, dpc>>
avars == <<amode, apc, alarm, waited, amain>>
vars == <<vvars, hvars, dvars, avars>>

\* the parts of the state a run does not use stay at these values
NoValue == [t |-> "absent", v |-> 0]
NoResponse == [status |-> 0, st |-> "", message |-> "", errors |-> <<>>, diet_plan |-> NoValue]
NoCount == [model |-> 0, parse |-> 0, responses |-> 0, warnings |-> 0]
VIdle ==
    /\ vdata = NoValue /\ vvariant = "" /\ vpc = "idle"
    /\ vresult = [raised |-> "none", errors |-> <<>>]
HIdle ==
    /\ hpc = "idle" /\ hreq = NoValue /\ halarm = FALSE /\ huser = NoValue
    /\ hprompt = NoValue /\ hreply = NoValue /\ hcleaned = <<>>
    /\ hresp = NoResponse /\ hcount = NoCount
DIdle == dinput = NoValue /\ dprompt = NoValue /\ dpc = "idle"
AIdle == amode = "" /\ apc = <<>> /\ alarm = 0 /\ waited = <<>> /\ amain = "idle"

----------------------------------------------------------------------------
(* Values *)

VAbsent == [t |-> "absent", v |-> 0]
VNull == [t |-> "null", v |-> 0]
VBool(b) == [t |-> "bool", v |-> b]
VInt(n) == [t |-> "int", v |-> n]
VFloat(halves) == [t |-> "float", v |-> halves]
VInf == [t |-> "inf", v |-> 0]
VNaN == [t |-> "nan", v |-> 0]
VStr(s) == [t |-> "str", v |-> s]
VList(l) == [t |-> "list", v |-> l]

\* key in dict
Has(data, f) == data[f].t # "absent"

\* isinstance(x, int): bool is a subclass of int
IsInstInt(x) == x.t \in {"int", "bool"}

\* isinstance(x, (int, float))
IsInstNum(x) == x.t \in {"int", "bool", "float", "inf", "nan"}

\* the value of a finite number, in half units
Halves(x) ==
    CASE x.t = "int" -> 2 * x.v
      [] x.t = "bool" -> (IF x.v THEN 2 ELSE 0)
      [] x.t = "float" -> x.v

\* bool(x)
Truthy(x) ==
    CASE x.t = "null" -> FALSE
      [] x.t = "bool" -> x.v
      [] x.t \in {"int", "float"} -> x.v # 0
      [] x.t \in {"inf", "nan"} -> TRUE
      [] x.t \in {"str", "list"} -> Len(x.v) > 0

\* x < n and x <= n for a number x and an integer n (inf is +Infinity; every
\* comparison with nan is False)
NumLt(x, n) == x.t \notin {"inf", "nan"} /\ Halves(x) < 2 * n
NumLe(x, n) == x.t \notin {"inf", "nan"} /\ Halves(x) <= 2 * n

Digits == <<"0", "1", "2", "3", "4", "5", "6", "7", "8", "9">>
IsDigit(c) == \E i \in 1..10 : Digits[i] = c
DigitVal(c) == (CHOOSE i \in 1..10 : Digits[i] = c) - 1
IsSpace(c) == c \in {" ", "\n"}

RECURSIVE Strip(_)
\* str.strip()
Strip(s) ==
    IF s = <<>> THEN s
    ELSE IF IsSpace(Head(s)) THEN Strip(Tail(s))
    ELSE IF IsSpace(s[Len(s)]) THEN Strip(SubSeq(s, 1, Len(s) - 1))
    ELSE s

RECURSIVE DecVal(_)
DecVal(s) == IF s = <<>> THEN 0 ELSE 10 * DecVal(SubSeq(s, 1, Len(s) - 1)) + DigitVal(s[Len(s)])

AllDigits(s) == s # <<>> /\ \A i \in 1..Len(s) : IsDigit(s[i])

\* int(<str>): surrounding whitespace, an optional sign, decimal digits
ParseInt(s) ==
    LET u == Strip(s)
        neg == u # <<>> /\ Head(u) = "-"
        d == IF u # <<>> /\ Head(u) \in {"-", "+"} THEN Tail(u) ELSE u
    IN  IF AllDigits(d)
        THEN [ok |-> TRUE, n |-> IF neg THEN 0 - DecVal(d) ELSE DecVal(d), exc |-> "none"]
        ELSE [ok |-> FALSE, n |-> 0, exc |-> "ValueError"]

\* int(x)
PyInt(x) ==
    CASE x.t = "int" -> [ok |-> TRUE, n |-> x.v, exc |-> "none"]
      [] x.t = "bool" -> [ok |-> TRUE, n |-> IF x.v THEN 1 ELSE 0, exc |-> "none"]
      [] x.t = "float" ->
            [ok |-> TRUE, exc |-> "none",
             n |-> IF x.v >= 0 THEN x.v \div 2 ELSE 0 - ((0 - x.v) \div 2)]
      [] x.t = "inf" -> [ok |-> FALSE, n |-> 0, exc |-> "OverflowError"]
      [] x.t = "nan" -> [ok |-> FALSE, n |-> 0, exc |-> "ValueError"]
      [] x.t = "str" -> ParseInt(x.v)
      [] OTHER -> [ok |-> FALSE, n |-> 0, exc |-> "TypeError"]

\* float(<str>) on the half-unit grid: digits, optionally followed by ".0" or ".5"
ParseFloat(s) ==
    LET u == Strip(s)
        neg == u # <<>> /\ Head(u) = "-"
        d == IF u # <<>> /\ Head(u) \in {"-", "+"} THEN Tail(u) ELSE u
        n == Len(d)
        frac == n >= 3 /\ d[n - 1] = "." /\ d[n] \in {"0", "5"}
        whole == IF frac THEN SubSeq(d, 1, n - 2) ELSE d
        h == 2 * DecVal(whole) + (IF frac /\ d[n] = "5" THEN 1 ELSE 0)
    IN  IF AllDigits(whole)
        THEN [ok |-> TRUE, x |-> VFloat(IF neg THEN 0 - h ELSE h), exc |-> "none"]
        ELSE [ok |-> FALSE, x |-> VNaN, exc |-> "ValueError"]

\* float(x)
PyFloat(x) ==
    CASE x.t \in {"int", "bool", "float"} -> [ok |-> TRUE, x |-> VFloat(Halves(x)), exc |-> "none"]
      [] x.t \in {"inf", "nan"} -> [ok |-> TRUE, x |-> x, exc |-> "none"]
      [] x.t = "str" -> ParseFloat(x.v)
      [] OTHER -> [ok |-> FALSE, x |-> VNaN, exc |-> "TypeError"]

\* lo <= x <= hi for a float x
Between(lo, x, hi) == x.t = "float" /\ 2 * lo <= x.v /\ x.v <= 2 * hi

LowerChar(c) ==
    CASE c = "V" -> "v" [] c = "E" -> "e" [] c = "G" -> "g" [] c = "T" -> "t"
      [] c = "A" -> "a" [] c = "R" -> "r" [] c = "I" -> "i" [] c = "N" -> "n"
      [] c = "O" -> "o" [] OTHER -> c

\* str.lower()
Lower(s) == [i \in 1..Len(s) |-> LowerChar(s[i])]

W_veg == <<"v", "e", "g">>
W_vegetarian == <<"v", "e", "g", "e", "t", "a", "r", "i", "a", "n">>
W_non_veg == <<"n", "o", "n", "-", "v", "e", "g">>
W_non_vegetarian == <<"n", "o", "n", " ", "v", "e", "g", "e", "t", "a", "r", "i", "a", "n">>

\* ['veg', 'vegetarian', 'non-veg', 'non vegetarian']
allowed_diet_types == {W_veg, W_vegetarian, W_non_veg, W_non_vegetarian}

----------------------------------------------------------------------------
(* validation.py: validate_diet_input(data) -> list of messages.  A message *)
(* is kept with the field it is about.                                      *)

required_fields_strict ==
    <<"age", "sex", "height", "weight", "country", "state", "health_conditions", "diet_type">>

Msg(f, m) == [field |-> f, msg |-> m]

Returned(errs) == [raised |-> "none", errors |-> errs]
Raised(exc) == [raised |-> exc, errors |-> <<>>]

MissingErrors(data) ==
    LET sel == SelectSeq(required_fields_strict, LAMBDA f : ~Has(data, f))
    IN  [i \in 1..Len(sel) |-> Msg(sel[i], "Missing required field")]

AgeLo == 10
AgeHi == 120
HeightLo == 100
HeightHi == 250
WeightLo == 30
WeightHi == 300

\* try: age = int(data['age']) ... except (ValueError, TypeError)
StrictAge(data) ==
    LET a == PyInt(data["age"])
    IN  IF ~Has(data, "age") THEN [exc |-> "KeyError", errs |-> <<>>]
        ELSE IF a.ok THEN
            [exc |-> "none",
             errs |-> IF AgeLo <= a.n /\ a.n <= AgeHi THEN <<>>
                      ELSE <<Msg("age", "Age must be between 10 and 120")>>]
        ELSE IF a.exc \in {"ValueError", "TypeError"} THEN
            [exc |-> "none", errs |-> <<Msg("age", "Invalid numeric value for age")>>]
        ELSE [exc |-> a.exc, errs |-> <<>>]

\* try: x = float(data[f]) ... except (ValueError, TypeError)
StrictFloatField(data, f, lo, hi, rangeMsg, invalidMsg) ==
    LET a == PyFloat(data[f])
    IN  IF ~Has(data, f) THEN [exc |-> "KeyError", errs |-> <<>>]
        ELSE IF a.ok THEN
            [exc |-> "none",
             errs |-> IF Between(lo, a.x, hi) THEN <<>> ELSE <<Msg(f, rangeMsg)>>]
        ELSE [exc |-> "none", errs |-> <<Msg(f, invalidMsg)>>]

StrictHealth(data) ==
    IF Has(data, "health_conditions") /\ data["health_conditions"].t # "list"
    THEN <<Msg("health_conditions", "Health conditions must be provided as a list")>>
    ELSE <<>>

StrictDiet(data) ==
    IF Has(data, "diet_type")
       /\ (data["diet_type"].t # "str" \/ Lower(data["diet_type"].v) \notin allowed_diet_types)
    THEN <<Msg("diet_type", "Diet type must be one of: veg, vegetarian, non-veg, non vegetarian")>>
    ELSE <<>>

validate_strict(data) ==
    LET a == StrictAge(data)
        h == StrictFloatField(data, "height", HeightLo, HeightHi,
                              "Height must be between 100 and 250 cm",
                              "Invalid numeric value for height")
        w == StrictFloatField(data, "weight", WeightLo, WeightHi,
                              "Weight must be between 30 and 300 kg",
                              "Invalid numeric value for weight")
    IN  IF a.exc # "none" THEN Raised(a.exc)
        ELSE IF h.exc # "none" THEN Raised(h.exc)
        ELSE IF w.exc # "none" THEN Raised(w.exc)
        ELSE Returned(MissingErrors(data) \o a.errs \o h.errs \o w.errs
                      \o StrictHealth(data) \o StrictDiet(data))

----------------------------------------------------------------------------
(* app.py: validate_diet_input(user_data) -> dict field -> message.        *)

required_fields_lenient == {"age", "sex", "height", "weight", "state", "country", "diet_type"}

AllFields == required_fields_lenient \cup {"health_conditions"}

\* field not in user_data or not user_data[field]
LenientRequired(data, f) ==
    f \in required_fields_lenient /\ (~Has(data, f) \/ ~Truthy(data[f]))

\* 'age' in user_data and not isinstance(user_data['age'], int) or user_data.get('age', 0) < 1
LenientAgeBad(data) ==
    \/ Has(data, "age") /\ ~IsInstInt(data["age"])
    \/ NumLt(IF Has(data, "age") THEN data["age"] ELSE VInt(0), 1)

\* f in user_data and not isinstance(user_data[f], (int, float)) or user_data.get(f, 0) <= 0
LenientNumBad(data, f) ==
    \/ Has(data, f) /\ ~IsInstNum(data[f])
    \/ NumLe(IF Has(data, f) THEN data[f] ELSE VInt(0), 0)

LenientHealthBad(data) ==
    Has(data, "health_conditions") /\ data["health_conditions"].t # "list"

\* user_data['diet_type'].lower() on a value that is not a str
LenientDietRaises(data) == Has(data, "diet_type") /\ data["diet_type"].t # "str"

LenientDietBad(data) ==
    Has(data, "diet_type") /\ Lower(data["diet_type"].v) \notin allowed_diet_types

\* the message the dict holds for field f at the return ("" when it has no entry):
\* a later assignment to errors[f] replaces the "is required" one
LenientMessage(data, f) ==
    IF f = "age" /\ LenientAgeBad(data) THEN "Age must be a positive number."
    ELSE IF f = "height" /\ LenientNumBad(data, "height") THEN "Height must be a positive number."
    ELSE IF f = "weight" /\ LenientNumBad(data, "weight") THEN "Weight must be a positive number."
    ELSE IF f = "health_conditions" /\ LenientHealthBad(data)
        THEN "Health conditions should be a list of strings."
    ELSE IF f = "diet_type" /\ LenientDietBad(data) THEN "Invalid diet type specified."
    ELSE IF LenientRequired(data, f) THEN "is required."
    ELSE ""

validate_lenient(data) ==
    IF LenientDietRaises(data) THEN [raised |-> "AttributeError", errors |-> <<>>]
    ELSE LET bad == {f \in AllFields : LenientMessage(data, f) # ""}
         IN  [raised |-> "none", errors |-> [f \in bad |-> LenientMessage(data, f)]]

----------------------------------------------------------------------------
(* Validator runs: one call of either validate_diet_input on a record.     *)

AgeValues ==
    {VAbsent, VNull, VBool(TRUE), VInt(0), VInt(5), VInt(9), VInt(10), VInt(30), VInt(120), VInt(121),
     VFloat(19), VFloat(21), VFloat(241), VFloat(242), VInf,
     VStr(<<"5", "0">>), VStr(<<"5">>), VStr(<<"a", "b", "c">>)}

SexValues == {VAbsent, VStr(<<"F">>), VStr(<<>>)}
HeightValues == {VAbsent, VInt(165), VInt(50), VFloat(331), VStr(<<"1", "6", "5">>), VStr(<<"a", "b", "c">>)}
WeightValues == {VAbsent, VInt(60), VInt(0)}
CountryValues == {VAbsent, VStr(<<"U", "S">>)}
StateValues == {VAbsent, VStr(<<"C", "A">>)}
HealthValues == {VAbsent, VList(<<>>), VStr(<<"f", "l", "u">>)}
DietValues ==
    {VAbsent, VStr(W_veg), VStr(<<"V", "E", "G">>), VStr(<<"v", "e", "g", "a", "n">>), VInt(5)}

ValidatorInputs ==
    [age : AgeValues, sex : SexValues, height : HeightValues, weight : WeightValues,
     country : CountryValues, state : StateValues, health_conditions : HealthValues,
     diet_type : DietValues]

VInit ==
    /\ vdata \in ValidatorInputs
    /\ vvariant \in {"validation.py", "app.py"}
    /\ vresult = [raised |-> "none", errors |-> <<>>]
    /\ vpc = "input"
    /\ HIdle /\ DIdle /\ AIdle

CallStrict ==
    /\ vpc = "input" /\ vvariant = "validation.py"
    /\ vresult' = validate_strict(vdata)
    /\ vpc' = "done"
    /\ UNCHANGED <<vdata, vvariant, hvars, dvars, avars>>

CallLenient ==
    /\ vpc = "input" /\ vvariant = "app.py"
    /\ vresult' = validate_lenient(vdata)
    /\ vpc' = "done"
    /\ UNCHANGED <<vdata, vvariant, hvars, dvars, avars>>

VNext == CallStrict \/ CallLenient

SpecValidate == VInit /\ [][VNext]_vars


----------------------------------------------------------------------------
(* app.py: generate_diet, one request handled from request.json to the     *)
(* returned response.                                                      *)

VObj(fields) == [t |-> "obj", v |-> fields]
VDict(fields) == [t |-> "dict", v |-> fields]

EmptyProfile == [f \in AllFields |-> VAbsent]

\* bool(user_data) for a request body
BodyTruthy(x) ==
    IF x.t = "dict" THEN \E f \in AllFields : Has(x.v, f) ELSE Truthy(x)

Response(status, st, message) ==
    [status |-> status, st |-> st, message |-> message, errors |-> <<>>, diet_plan |-> NoValue]

\* return jsonify(...), <status>: the handler ends
Return(resp) ==
    /\ hresp' = resp
    /\ hpc' = "done"

Counted(field) == [hcount EXCEPT ![field] = @ + 1]

\* line 87: user_data = request.json.  Flask raises an HTTPException (a
\* subclass of Exception) for a body that is absent or does not parse; older
\* Flask versions give None for a body sent without a JSON content type.
RequestJsonRaises ==
    /\ hpc = "start"
    /\ hreq.t \in {"nobody", "unparseable"}
    /\ Return(Response(500, "error", "An unexpected server error occurred"))
    /\ hcount' = Counted("responses")
    /\ UNCHANGED <<hreq, halarm, huser, hprompt, hreply, hcleaned, vvars, dvars, avars>>

RequestJsonReturns ==
    /\ hpc = "start"
    /\ hreq.t # "unparseable"
    /\ huser' = (IF hreq.t = "nobody" THEN VNull ELSE hreq)
    /\ hpc' = "got_json"
    /\ UNCHANGED <<hreq, halarm, hprompt, hreply, hcleaned, hresp, hcount, vvars, dvars, avars>>

\* lines 88-89: if not user_data: return 400
NoJsonData ==
    /\ hpc = "got_json"
    /\ ~BodyTruthy(huser)
    /\ Return(Response(400, "error", "Invalid request: No JSON data received."))
    /\ hcount' = Counted("responses")
    /\ UNCHANGED <<hreq, halarm, huser, hprompt, hreply, hcleaned, vvars, dvars, avars>>

\* validate_diet_input(user_data) on a body that is no dict: user_data.get fails
ValidateBody(user) ==
    IF user.t = "dict" THEN validate_lenient(user.v)
    ELSE [raised |-> "AttributeError", errors |-> <<>>]

\* lines 92-94: errors = validate_diet_input(user_data); if errors: return 400
Validate ==
    /\ hpc = "got_json"
    /\ BodyTruthy(huser)
    /\ LET res == ValidateBody(huser)
       IN  IF res.raised # "none"
           THEN /\ Return(Response(500, "error", "An unexpected server error occurred"))
                /\ hcount' = Counted("responses")
           ELSE IF DOMAIN res.errors # {}
           THEN /\ Return([Response(400, "error", "") EXCEPT !.errors = res.errors])
                /\ hcount' = Counted("responses")
           ELSE /\ hpc' = "validated"
                /\ UNCHANGED <<hresp, hcount>>
    /\ UNCHANGED <<hreq, halarm, huser, hprompt, hreply, hcleaned, vvars, dvars, avars>>

\* the normalisation without .lower()
NormalizeDiet_case_sensitive(data) ==
    LET diet_type_input == IF Has(data, "diet_type") THEN data["diet_type"].v ELSE W_veg
    IN  IF diet_type_input \in {W_veg, W_vegetarian} THEN "vegetarian"
        ELSE IF diet_type_input \in {W_non_veg, W_non_vegetarian} THEN "non-vegetarian"
        ELSE "vegetarian"

\* lines 97-105
NormalizeDiet(data) ==
    LET diet_type_input == Lower(IF Has(data, "diet_type") THEN data["diet_type"].v ELSE W_veg)
    IN  IF diet_type_input \in {W_veg, W_vegetarian} THEN "vegetarian"
        ELSE IF diet_type_input \in {W_non_veg, W_non_vegetarian} THEN "non-vegetarian"
        ELSE "vegetarian"

RECURSIVE Join(_)
\* ', '.join(conditions)
Join(conds) ==
    IF Len(conds) = 0 THEN <<>>
    ELSE IF Len(conds) = 1 THEN conds[1]
    ELSE conds[1] \o <<",", " ">> \o Join(Tail(conds))

\* lines 108-118
HealthConditionsStr(data) ==
    LET hc == data["health_conditions"]
        stripped == [i \in 1..Len(hc.v) |-> Strip(hc.v[i].v)]
        conditions == SelectSeq(stripped, LAMBDA c : c # <<>>)
    IN  IF Has(data, "health_conditions") /\ Truthy(hc) /\ hc.t = "list" /\ conditions # <<>>
        THEN Join(conditions)
        ELSE <<"N", "o", "n", "e">>

\* user_data.get(f, 'N/A')
GetOrNA(data, f) == IF Has(data, f) THEN data[f] ELSE VStr(<<"N", "/", "A">>)

\* lines 122-171: the clauses the f-string interpolates
BuildPrompt(data) ==
    [age |-> GetOrNA(data, "age"), sex |-> GetOrNA(data, "sex"),
     height |-> GetOrNA(data, "height"), weight |-> GetOrNA(data, "weight"),
     state |-> GetOrNA(data, "state"), country |-> GetOrNA(data, "country"),
     health_conditions |-> HealthConditionsStr(data),
     diet_preference |-> NormalizeDiet(data),
     all_meals_should_be |-> NormalizeDiet(data)]

\* lines 96-171
MakePrompt ==
    /\ hpc = "validated"
    /\ hprompt' = BuildPrompt(huser.v)
    /\ hpc' = "prompted"
    /\ UNCHANGED <<hreq, halarm, huser, hreply, hcleaned, hresp, hcount, vvars, dvars, avars>>

\* json.loads' documents.  In a reply text one character Doc<i> stands for the
\* whole text of document i (a JSON text starts and ends with no whitespace and
\* no backquote, so the cleaning never looks inside it).
GSP == <<"g", "l", "u", "c", "o", "s", "e", "_", "s", "p", "i", "k", "e", "_",
         "p", "r", "e", "d", "i", "c", "t", "i", "o", "n">>
Oat == VStr(<<"O", "a", "t">>)
Meal == VObj([meal |-> Oat, calories |-> VInt(350), glucose_spike_prediction |-> VStr(<<"L", "o", "w">>)])
MealNoKey == VObj([meal |-> Oat, calories |-> VInt(350)])
Week(monday) == VObj([weekly_plan |-> VObj([monday |-> monday]), cooking_tips |-> VList(<<Oat>>)])
Day(breakfast) == Week(VObj([breakfast |-> breakfast, lunch |-> Meal]))

DocTable ==
    << Day(Meal), Day(MealNoKey), Week(VObj([lunch |-> Meal])),
       VObj([weekly_plan |-> VObj(<<>>)]), VObj([cooking_tips |-> VList(<<Oat>>)]), VObj(<<>>),
       VList(<<VInt(1)>>), Oat, VInt(5), VNull,
       VObj([weekly_plan |-> VNull]), VObj([weekly_plan |-> VList(<<Oat>>)]),
       Week(Oat), Week(VNull),
       Day(VInt(5)), Day(VNull), Day(Oat), Day(VStr(<<"n", "o", " ">> \o GSP)),
       Day(VList(<<Oat>>)), Day(VList(<<VStr(GSP)>>)) >>

DocSyms ==
    << "Doc1", "Doc2", "Doc3", "Doc4", "Doc5", "Doc6", "Doc7", "Doc8", "Doc9", "Doc10",
       "Doc11", "Doc12", "Doc13", "Doc14", "Doc15", "Doc16", "Doc17", "Doc18", "Doc19", "Doc20" >>

IsDocSym(c) == \E i \in 1..Len(DocSyms) : DocSyms[i] = c
DocOf(c) == DocTable[CHOOSE i \in 1..Len(DocSyms) : DocSyms[i] = c]

\* json.loads(text): whitespace around one JSON document, else JSONDecodeError
JsonLoads(text) ==
    LET u == Strip(text)
    IN  IF Len(u) = 1 /\ IsDocSym(u[1]) THEN [ok |-> TRUE, value |-> DocOf(u[1]), diag |-> ""]
        ELSE IF Len(u) > 1 /\ IsDocSym(u[1])
        THEN [ok |-> FALSE, value |-> NoValue, diag |-> "Extra data"]
        ELSE [ok |-> FALSE, value |-> NoValue, diag |-> "Expecting value"]

\* the backquote character (written by name: the character itself cannot stand in a
\* string here)
BQ == "backquote"
Fence == <<BQ, BQ, BQ>>
FenceJson == <<BQ, BQ, BQ, "j", "s", "o", "n">>

\* str.startswith / str.endswith / s[n:] / s[:-n]
StartsWith(s, p) == Len(s) >= Len(p) /\ SubSeq(s, 1, Len(p)) = p
EndsWith(s, p) == Len(s) >= Len(p) /\ SubSeq(s, Len(s) - Len(p) + 1, Len(s)) = p
DropFirst(s, n) == SubSeq(s, n + 1, Len(s))
DropLast(s, n) == SubSeq(s, 1, Len(s) - n)

\* lines 212-219
Clean(text) ==
    LET c0 == Strip(text)
        c1 == IF StartsWith(c0, FenceJson) THEN DropFirst(c0, Len(FenceJson)) ELSE c0
        c2 == IF StartsWith(c1, Fence) THEN DropFirst(c1, Len(Fence)) ELSE c1
        c3 == IF EndsWith(c2, Fence) THEN DropLast(c2, Len(Fence)) ELSE c2
    IN  Strip(c3)

\* x.get(k, {}) inside the check's try block
DictGet(r, k) ==
    IF r.exc # "none" THEN r
    ELSE IF r.val.t # "obj" THEN [exc |-> "AttributeError", val |-> NoValue]
    ELSE IF k \in DOMAIN r.val.v THEN [exc |-> "none", val |-> r.val.v[k]]
    ELSE [exc |-> "none", val |-> VObj(<<>>)]

Contains(s, sub) ==
    \E i \in 0..(Len(s) - Len(sub)) : SubSeq(s, i + 1, i + Len(sub)) = sub

\* "glucose_spike_prediction" not in sample_meal
KeyNotIn(r) ==
    IF r.exc # "none" THEN [exc |-> r.exc, missing |-> FALSE]
    ELSE IF r.val.t = "obj"
        THEN [exc |-> "none", missing |-> "glucose_spike_prediction" \notin DOMAIN r.val.v]
    ELSE IF r.val.t = "list"
        THEN [exc |-> "none",
              missing |-> ~\E i \in 1..Len(r.val.v) : r.val.v[i] = VStr(GSP)]
    ELSE IF r.val.t = "str" THEN [exc |-> "none", missing |-> ~Contains(r.val.v, GSP)]
    ELSE [exc |-> "TypeError", missing |-> FALSE]

\* the check with its exceptions left uncaught
GlucoseCheck_uncaught(diet_plan) ==
    LET sample_meal == DictGet(DictGet(DictGet([exc |-> "none", val |-> diet_plan],
                                               "weekly_plan"), "monday"), "breakfast")
        c == KeyNotIn(sample_meal)
    IN  [diet_plan |-> diet_plan, escaped |-> c.exc, warned |-> c.missing]

\* lines 226-235: the check of weekly_plan -> monday -> breakfast.  Every
\* exception of the check is caught (except Exception as check_e); both the
\* missing key and a caught exception print one warning; diet_plan is only read.
GlucoseCheck(diet_plan) ==
    LET sample_meal == DictGet(DictGet(DictGet([exc |-> "none", val |-> diet_plan],
                                               "weekly_plan"), "monday"), "breakfast")
        c == KeyNotIn(sample_meal)
    IN  [diet_plan |-> diet_plan, escaped |-> "none",
         warned |-> c.exc # "none" \/ c.missing]

MaxWrap == 2
\* what a reply may put before and after its body
PrePieces == {Fence, <<"j", "s", "o", "n">>, <<"\n">>}
PostPieces == {Fence, <<"\n">>}

RECURSIVE Concat(_)
Concat(ss) == IF ss = <<>> THEN <<>> ELSE Head(ss) \o Concat(Tail(ss))

WrapTexts(pieces) == {Concat(ss) : ss \in UNION {[1..n -> pieces] : n \in 0..MaxWrap}}
Bodies == {<<DocSyms[i]>> : i \in 1..Len(DocSyms)} \cup {<<>>, <<"x">>, <<"Doc1", "x">>}
ReplyTexts ==
    {pre \o body \o post : pre \in WrapTexts(PrePieces), body \in Bodies,
                           post \in WrapTexts(PostPieces)}

\* what model.generate_content(prompt) can return: None, an object without a
\* text attribute, an object with text
Replies == {VNull, [t |-> "notext", v |-> 0]} \cup {VStr(x) : x \in ReplyTexts}

\* lines 177-195: the call returns
ModelReturns ==
    /\ hpc = "prompted"
    /\ \E r \in Replies : hreply' = r
    /\ hcount' = Counted("model")
    /\ hpc' = "called"
    /\ UNCHANGED <<hreq, halarm, huser, hprompt, hcleaned, hresp, vvars, dvars, avars>>

\* lines 178-185, 197-201: the alarm goes off during the call, timeout_handler
\* raises TimeoutException in the handler; timed_out; 504
ModelTimesOut ==
    /\ hpc = "prompted"
    /\ halarm
    /\ Return(Response(504, "error", "Model response timed out. The request took too long."))
    /\ hcount' = [hcount EXCEPT !.model = @ + 1, !.responses = @ + 1]
    /\ UNCHANGED <<hreq, halarm, huser, hprompt, hreply, hcleaned, vvars, dvars, avars>>

\* the call raises another exception: with the alarm it reaches the outer
\* except Exception (lines 260-266), without it lines 190-195
ModelRaises ==
    /\ hpc = "prompted"
    /\ Return(Response(500, "error",
                       IF halarm THEN "An unexpected server error occurred"
                       ELSE "Error communicating with AI model"))
    /\ hcount' = [hcount EXCEPT !.model = @ + 1, !.responses = @ + 1]
    /\ UNCHANGED <<hreq, halarm, huser, hprompt, hreply, hcleaned, vvars, dvars, avars>>

\* lines 203-208: if not response or not hasattr(response, 'text'): 502
InvalidResponse ==
    /\ hpc = "called"
    /\ hreply.t # "str"
    /\ Return(Response(502, "error", "Received an invalid or empty response from the AI model."))
    /\ hcount' = Counted("responses")
    /\ UNCHANGED <<hreq, halarm, huser, hprompt, hreply, hcleaned, vvars, dvars, avars>>

\* lines 212-219
CleanResponse ==
    /\ hpc = "called"
    /\ hreply.t = "str"
    /\ hcleaned' = Clean(hreply.v)
    /\ hpc' = "cleaned"
    /\ UNCHANGED <<hreq, halarm, huser, hprompt, hreply, hresp, hcount, vvars, dvars, avars>>

\* the handler with JSONDecodeError left to the outer except Exception
ParseResponse_generic ==
    /\ hpc = "cleaned"
    /\ LET r == JsonLoads(hcleaned)
           chk == GlucoseCheck(r.value)
       IN  IF ~r.ok \/ chk.escaped # "none"
           THEN /\ Return(Response(500, "error", "An unexpected server error occurred"))
                /\ hcount' = [hcount EXCEPT !.parse = @ + 1, !.responses = @ + 1]
           ELSE /\ Return([Response(200, "success", "") EXCEPT !.diet_plan = chk.diet_plan])
                /\ hcount' = [hcount EXCEPT !.parse = @ + 1, !.responses = @ + 1,
                                            !.warnings = @ + (IF chk.warned THEN 1 ELSE 0)]
    /\ UNCHANGED <<hreq, halarm, huser, hprompt, hreply, hcleaned, vvars, dvars, avars>>

\* lines 222-251: json.loads, the check, 200; JSONDecodeError gives 500
ParseResponse ==
    /\ hpc = "cleaned"
    /\ LET r == JsonLoads(hcleaned)
           chk == GlucoseCheck(r.value)
       IN  IF ~r.ok
           THEN /\ Return(Response(500, "error", "Failed to parse the diet plan structure received from the AI. Error: " \o r.diag))
                /\ hcount' = [hcount EXCEPT !.parse = @ + 1, !.responses = @ + 1]
           ELSE IF chk.escaped # "none"
           THEN /\ Return(Response(500, "error", "An unexpected server error occurred"))
                /\ hcount' = [hcount EXCEPT !.parse = @ + 1, !.responses = @ + 1]
           ELSE /\ Return([Response(200, "success", "") EXCEPT !.diet_plan = chk.diet_plan])
                /\ hcount' = [hcount EXCEPT !.parse = @ + 1, !.responses = @ + 1,
                                            !.warnings = @ + (IF chk.warned THEN 1 ELSE 0)]
    /\ UNCHANGED <<hreq, halarm, huser, hprompt, hreply, hcleaned, vvars, dvars, avars>>

\* request bodies
HandlerProfiles ==
    [age : {VAbsent, VInt(5), VInt(30)}, sex : {VAbsent, VStr(<<"F">>)},
     height : {VAbsent, VInt(165)}, weight : {VInt(60)},
     country : {VStr(<<"U", "S">>)}, state : {VStr(<<"C", "A">>)},
     health_conditions : {VAbsent, VList(<<>>), VStr(<<"f", "l", "u">>),
                          VList(<<VStr(<<" ">>), VStr(<<"f", "l", "u">>), VStr(<<" ", "c", "o", "l", "d">>)>>)},
     diet_type : {VAbsent, VStr(W_veg), VStr(<<"N", "O", "N", "-", "v", "e", "g">>),
                  VStr(<<"v", "e", "g", "a", "n">>), VInt(5)}]

Requests ==
    {[t |-> "nobody", v |-> 0], [t |-> "unparseable", v |-> 0], VNull, VList(<<VInt(1)>>),
     VDict(EmptyProfile)}
    \cup {VDict(d) : d \in HandlerProfiles}

Init ==
    /\ hpc = "start"
    /\ hreq \in Requests
    /\ halarm \in BOOLEAN
    /\ huser = NoValue /\ hprompt = NoValue /\ hreply = NoValue /\ hcleaned = <<>>
    /\ hresp = NoResponse /\ hcount = NoCount
    /\ VIdle /\ DIdle /\ AIdle

Next ==
    \/ RequestJsonRaises \/ RequestJsonReturns \/ NoJsonData \/ Validate \/ MakePrompt
    \/ ModelReturns \/ ModelTimesOut \/ ModelRaises
    \/ InvalidResponse \/ CleanResponse \/ ParseResponse

Spec == Init /\ [][Next]_vars

----------------------------------------------------------------------------
(* Prompt runs: lines 96-171 applied to a profile whose diet_type is a case *)
(* variant of an accepted word, another string, or absent.                  *)

UpperChar(c) ==
    CASE c = "v" -> "V" [] c = "e" -> "E" [] c = "g" -> "G" [] c = "t" -> "T"
      [] c = "a" -> "A" [] c = "r" -> "R" [] c = "i" -> "I" [] c = "n" -> "N"
      [] c = "o" -> "O" [] OTHER -> c

\* word with the characters at the positions in upper put in upper case
CaseVariant(word, upper) ==
    [i \in 1..Len(word) |-> IF i \in upper THEN UpperChar(word[i]) ELSE word[i]]

MaxUpper == 2

OtherWords ==
    {<<"v", "e", "g", "a", "n">>, <<"n", "o", "n", "-", "v", "e", "g", "e", "t", "a", "r", "i", "a", "n">>,
     <<"n", "o", "n", "v", "e", "g">>, <<"v", "e", "g", " ">>, <<"m", "e", "a", "t">>}

DietInputs ==
    {[word |-> w, upper |-> u, absent |-> FALSE] :
        w \in allowed_diet_types \cup OtherWords,
        u \in {x \in SUBSET (1..14) : Cardinality(x) <= MaxUpper} \cup {1..14}}
    \cup {[word |-> <<>>, upper |-> {}, absent |-> TRUE]}

\* the profile of a prompt run
ProfileWith(inp) ==
    [age |-> VInt(30), sex |-> VStr(<<"F">>), height |-> VInt(165), weight |-> VInt(60),
     country |-> VStr(<<"U", "S">>), state |-> VStr(<<"C", "A">>),
     health_conditions |-> VList(<<>>),
     diet_type |-> IF inp.absent THEN VAbsent ELSE VStr(CaseVariant(inp.word, inp.upper))]

DInit ==
    /\ dinput \in DietInputs
    /\ dprompt = NoValue
    /\ dpc = "input"
    /\ VIdle /\ HIdle /\ AIdle

ApplyBuildPrompt ==
    /\ dpc = "input"
    /\ dprompt' = BuildPrompt(ProfileWith(dinput))
    /\ dpc' = "done"
    /\ UNCHANGED <<dinput, vvars, hvars, avars>>

DNext == ApplyBuildPrompt

SpecPrompt == DInit /\ [][DNext]_vars

----------------------------------------------------------------------------
(* Alarm runs: lines 174-201 for requests in flight at once.  signal.alarm  *)
(* sets the one alarm of the process (a new call replaces the pending one,  *)
(* alarm(0) cancels it); Python runs timeout_handler in the main thread.    *)
(* With app.run(threaded=True) every request runs in a thread of its own,   *)
(* otherwise ("single") the main thread handles the requests one at a time. *)

NumRequests == 2
ReqIds == 1..NumRequests
AlarmSeconds == 45
TickSeconds == 15
MaxWait == 90

AInit ==
    /\ amode \in {"threaded", "single"}
    /\ apc = [r \in ReqIds |-> "start"]
    /\ alarm = 0
    /\ waited = [r \in ReqIds |-> 0]
    /\ amain = "serving"
    /\ VIdle /\ HIdle /\ DIdle

InFlight(r) == apc[r] \in {"calling", "returned", "timed_out"}

\* line 178: signal.alarm(45), then the call starts
Arm(r) ==
    /\ apc[r] = "start"
    /\ amode = "single" => \A o \in ReqIds : ~InFlight(o)
    /\ alarm' = AlarmSeconds
    /\ apc' = [apc EXCEPT ![r] = "calling"]
    /\ UNCHANGED <<amode, waited, amain, vvars, hvars, dvars>>

\* time passes; when the alarm runs out SIGALRM is delivered and
\* timeout_handler raises TimeoutException in the main thread: inside
\* generate_content when the main thread is handling the request, outside every
\* request handler when the requests run in threads of their own
Tick ==
    /\ \E r \in ReqIds : apc[r] = "calling"
    /\ \A r \in ReqIds : apc[r] = "calling" => waited[r] + TickSeconds <= MaxWait
    /\ waited' = [r \in ReqIds |-> IF apc[r] = "calling" THEN waited[r] + TickSeconds
                                   ELSE waited[r]]
    /\ alarm' = IF alarm > TickSeconds THEN alarm - TickSeconds ELSE 0
    /\ IF alarm > 0 /\ alarm <= TickSeconds
       THEN IF amode = "single"
            THEN /\ apc' = [r \in ReqIds |-> IF apc[r] = "calling" THEN "timed_out" ELSE apc[r]]
                 /\ UNCHANGED amain
            ELSE /\ amain' = "TimeoutException"
                 /\ UNCHANGED apc
       ELSE UNCHANGED <<apc, amain>>
    /\ UNCHANGED <<amode, vvars, hvars, dvars>>

\* line 180: generate_content returns
CallReturns(r) ==
    /\ apc[r] = "calling"
    /\ apc' = [apc EXCEPT ![r] = "returned"]
    /\ UNCHANGED <<amode, alarm, waited, amain, vvars, hvars, dvars>>

\* lines 184-185: finally: signal.alarm(0); then 504 if timed_out (lines
\* 197-201), else the reply goes on to be parsed
Disarm(r) ==
    /\ apc[r] \in {"returned", "timed_out"}
    /\ alarm' = 0
    /\ apc' = [apc EXCEPT ![r] = IF apc[r] = "timed_out" THEN "504" ELSE "replied"]
    /\ UNCHANGED <<amode, waited, amain, vvars, hvars, dvars>>

ANext == \E r \in ReqIds : Arm(r) \/ CallReturns(r) \/ Disarm(r) \/ Tick

SpecAlarm == AInit /\ [][ANext]_vars

----------------------------------------------------------------------------
(* Properties of the validator runs *)

RequiredOf(variant) ==
    IF variant = "validation.py"
    THEN {required_fields_strict[i] : i \in 1..Len(required_fields_strict)}
    ELSE required_fields_lenient

\* the report holds an error about field f
ReportNames(res, variant, f) ==
    IF variant = "validation.py"
    THEN \E i \in 1..Len(res.errors) : res.errors[i].field = f
    ELSE f \in DOMAIN res.errors

\* the numeric value of x lies in [lo, hi]; a numeric string counts by the number it spells
NumericIn(x, lo, hi) ==
    \/ x.t \in {"int", "float"} /\ 2 * lo <= Halves(x) /\ Halves(x) <= 2 * hi
    \/ x.t = "str" /\ ParseFloat(x.v).ok /\ Between(lo, ParseFloat(x.v).x, hi)

\* field f of the record breaks a rule of the variant's validator
RuleBroken(data, variant, f) ==
    \/ f \in RequiredOf(variant) /\ ~Has(data, f)
    \/ f = "age" /\ Has(data, f) /\ variant = "validation.py" /\ ~NumericIn(data[f], AgeLo, AgeHi)
    \/ f = "height" /\ Has(data, f) /\ variant = "validation.py"
         /\ ~NumericIn(data[f], HeightLo, HeightHi)
    \/ f = "weight" /\ Has(data, f) /\ variant = "validation.py"
         /\ ~NumericIn(data[f], WeightLo, WeightHi)
    \/ f = "age" /\ Has(data, f) /\ variant = "app.py"
         /\ ~(IsInstInt(data[f]) /\ ~NumLt(data[f], 1))
    \/ f \in {"height", "weight"} /\ Has(data, f) /\ variant = "app.py"
         /\ ~(data[f].t \in {"int", "bool", "float"} /\ ~NumLe(data[f], 0))
    \/ f = "health_conditions" /\ Has(data, f) /\ data[f].t # "list"
    \/ f = "diet_type" /\ Has(data, f)
         /\ (data[f].t # "str" \/ Lower(data[f].v) \notin allowed_diet_types)

\* C1: for every record that lacks a required field, the validator returns a
\* report holding an error that names that field (for each required field, the
\* numeric ones included, whatever the other fields hold).
C1_MissingFieldReported ==
    vpc = "done" =>
        \A f \in RequiredOf(vvariant) :
            ~Has(vdata, f) => vresult.raised = "none" /\ ReportNames(vresult, vvariant, f)

\* C2: one call of the validator never raises and its report holds an error
\* for every field rule the record breaks (errors accumulate).
C2_ReportsEveryBrokenRule ==
    vpc = "done" =>
        /\ vresult.raised = "none"
        /\ \A f \in AllFields :
              RuleBroken(vdata, vvariant, f) => ReportNames(vresult, vvariant, f)

\* C8: validation.py reports an age error exactly for the age values outside
\* [10,120] (a numeric string counts by the integer it spells); app.py reports
\* an age error exactly for the values that are not positive integers.
C8_AgeRule ==
    (vpc = "done" /\ Has(vdata, "age")) =>
        /\ vresult.raised \notin {"KeyError", "AttributeError"} =>
              /\ vresult.raised = "none"
              /\ vvariant = "validation.py" =>
                    (ReportNames(vresult, vvariant, "age")
                        <=> ~NumericIn(vdata["age"], AgeLo, AgeHi))
              /\ vvariant = "app.py" =>
                    (ReportNames(vresult, vvariant, "age")
                        <=> ~(IsInstInt(vdata["age"]) /\ ~NumLt(vdata["age"], 1)))

----------------------------------------------------------------------------
(* Properties of generate_diet *)

\* the profile is valid per the data model
DataModelValid(d) ==
    /\ \A f \in required_fields_lenient : Has(d, f)
    /\ d["age"].t = "int" /\ AgeLo <= d["age"].v /\ d["age"].v <= AgeHi
    /\ NumericIn(d["height"], HeightLo, HeightHi)
    /\ NumericIn(d["weight"], WeightLo, WeightHi)
    /\ d["diet_type"].t = "str" /\ Lower(d["diet_type"].v) \in allowed_diet_types

\* C3: the prompt is built and the model called only for a profile valid per
\* the data model (age an integer in 10..120, height in 100..250, weight in
\* 30..300, diet_type in the enumeration), and a validation error ends the
\* request with 400 before the prompt is built.
C3_PromptOnlyForValidProfile ==
    /\ (hprompt # NoValue \/ hcount.model > 0) => (huser.t = "dict" /\ DataModelValid(huser.v))
    /\ (hpc = "done" /\ DOMAIN hresp.errors # {}) =>
            (hresp.status = 400 /\ hprompt = NoValue /\ hcount.model = 0)

\* exactly one optional leading fence (with or without the json tag) and one
\* optional trailing fence removed
StripOnePair(text) ==
    LET c0 == Strip(text)
        c1 == IF StartsWith(c0, FenceJson) THEN DropFirst(c0, Len(FenceJson))
              ELSE IF StartsWith(c0, Fence) THEN DropFirst(c0, Len(Fence))
              ELSE c0
        c2 == IF EndsWith(c1, Fence) THEN DropLast(c1, Len(Fence)) ELSE c1
    IN  Strip(c2)

\* C5: the cleaning removes one optional leading fence and one optional trailing
\* fence and no more than one leading fence marker; a JSON text wrapped in a
\* fence pair (with or without the json tag) parses to what the text alone
\* parses to.
C5_StripsOneFencePair ==
    (hpc \in {"cleaned", "done"} /\ hreply.t = "str") =>
        /\ hcleaned = StripOnePair(hreply.v)
        /\ \A i \in 1..Len(DocSyms) : \A open \in {Fence, FenceJson} :
              hreply.v = open \o <<"\n", DocSyms[i], "\n">> \o Fence =>
                  JsonLoads(hcleaned) = JsonLoads(Clean(<<DocSyms[i]>>))

\* C6: a reply whose cleaned text is not valid JSON ends the request with the
\* parse error (500, status "error", the message carrying the parser's
\* diagnostic) after exactly one parse attempt and one model call.
C6_ParseFailureIsTerminal ==
    (hpc = "done" /\ hreply.t = "str" /\ ~JsonLoads(hcleaned).ok) =>
        /\ hresp.status = 500 /\ hresp.st = "error"
        /\ hresp.message = "Failed to parse the diet plan structure received from the AI. Error: "
                              \o JsonLoads(hcleaned).diag
        /\ hresp.diet_plan = NoValue
        /\ hcount.parse = 1 /\ hcount.model = 1 /\ hcount.responses = 1

C6_Witness ==
    /\ hpc = "done" /\ hreply.t = "str" /\ hcleaned = <<"x">>
    /\ hresp.status = 500 /\ hcount.parse = 1

\* C7: every invocation ends with exactly one response whose status is one of
\* 200, 400, 500, 502, 504; an absent body or a validation failure gives 400,
\* an expired wait 504, an absent or unusable model reply 502, a parse failure
\* or any other exception 500.
C7_EveryInvocationAnswersByClass ==
    hpc = "done" =>
        /\ hcount.responses = 1
        /\ hresp.status \in {200, 400, 500, 502, 504}
        /\ (hreq.t = "nobody" \/ (hreq.t # "unparseable" /\ ~BodyTruthy(hreq))) => hresp.status = 400
        /\ DOMAIN hresp.errors # {} => hresp.status = 400
        /\ (hcount.model = 1 /\ hreply.t \in {"null", "notext"}) => hresp.status = 502
        /\ (hcount.parse = 1 /\ ~JsonLoads(hcleaned).ok) => hresp.status = 500

\* C10: whenever the cleaned reply parses, the request ends with 200 and
\* diet_plan is the parsed value unchanged, whatever the check of
\* weekly_plan -> monday -> breakfast finds (key missing, path absent, a value
\* on the path that is no object).
C10_ParsedPlanReturnedAsIs ==
    (hpc = "done" /\ hreply.t = "str" /\ JsonLoads(hcleaned).ok) =>
        /\ hresp.status = 200 /\ hresp.st = "success"
        /\ hresp.diet_plan = JsonLoads(hcleaned).value
        /\ hcount.responses = 1

C10_Witness ==
    /\ hpc = "done" /\ hresp.status = 200 /\ hcount.warnings = 1
    /\ hresp.diet_plan = Week(VNull)

----------------------------------------------------------------------------
(* Properties of the prompt runs *)

\* C9: every case variant of "veg" or "vegetarian" is normalised to
\* "vegetarian", every case variant of "non-veg" or "non vegetarian" to
\* "non-vegetarian", any other value to "vegetarian"; the result is one of the
\* two descriptions and is what the prompt's diet clauses render.
C9_DietNormalisation ==
    dpc = "done" =>
        /\ dprompt.diet_preference \in {"vegetarian", "non-vegetarian"}
        /\ dprompt.all_meals_should_be = dprompt.diet_preference
        /\ dprompt.diet_preference = "non-vegetarian"
              <=> (~dinput.absent /\ dinput.word \in {W_non_veg, W_non_vegetarian})

C9_Witness ==
    /\ dpc = "done"
    /\ dinput.word = W_non_vegetarian /\ dinput.upper = 1..14
    /\ dprompt.diet_preference = "non-vegetarian"

----------------------------------------------------------------------------
(* Properties of the alarm runs *)

\* C4: with requests handled on separate threads, every request whose model
\* call has not returned within its 45 s has the wait aborted and ends with 504,
\* whatever the other requests do with the alarm.
C4_EveryDeadlineKept ==
    amode = "threaded" =>
        \A r \in ReqIds : waited[r] >= AlarmSeconds => apc[r] \in {"timed_out", "504"}

====
